---- MODULE Spec2Model ----
(***************************************************************************)
(* The feed pipeline (lib/feed: fetchFeedItems, fetchGitHubTrending) and   *)
(* the freshness cache in front of it (api/feed route: GET) of Techflow.   *)
(*                                                                         *)
(* A behaviour is a run of the server process: feed requests arrive, each  *)
(* executes GET; the synchronous stretches of GET between two awaits are   *)
(* one step each (the JavaScript event loop runs them without              *)
(* interleaving), and every network completion is a step of its own.       *)
(*                                                                         *)
(* The collection routes (api/collections: GET, api/collections/[id]/items:*)
(* POST, DELETE) are modelled beside it over the tables they write; every  *)
(* awaited prisma call is a step of its own.                               *)
(***************************************************************************)
EXTENDS Integers, Sequences, FiniteSets, TLC

(***************************************************************************)
(* Bounds of the model.                                                    *)
(***************************************************************************)
\* feed requests issued during one behaviour
MaxReq == 2
\* registry entries the model fetches (the registry lists 17)
NumSources == 2
\* number of times the wall clock is advanced during one behaviour
MaxTicks == 2
\* requests to the collection routes issued during one behaviour
MaxCalls == 3

(***************************************************************************)
(* Program constants.                                                      *)
(***************************************************************************)
CACHE_TTL_MS == 4 * 60 * 60 * 1000

\* cheerio callback: `if (index > 10) return;` (index is 0-based)
TrendingLastIndex == 10

\* a string field the upstream record does not carry (JavaScript undefined);
\* strings are sequences of one-character strings, so no string equals it
Absent == <<"undefined">>
\* a date field the upstream record does not carry
NoDate == -1

\* the head of the source registry: id, name, url, default category, weight (in %)
sources ==
  << [id |-> "techcrunch",  name |-> "TechCrunch",   url |-> "https://techcrunch.com/feed/",
      category |-> "Industry News",    weight |-> 90],
     [id |-> "hn",          name |-> "Hacker News",  url |-> "https://news.ycombinator.com/rss",
      category |-> "Industry News",    weight |-> 75],
     [id |-> "devto",       name |-> "Dev.to",       url |-> "https://dev.to/feed",
      category |-> "Open Source",      weight |-> 80],
     [id |-> "producthunt", name |-> "Product Hunt", url |-> "https://www.producthunt.com/feed",
      category |-> "Product Launches", weight |-> 85] >>

Sources == 1..NumSources
Reqs    == 1..MaxReq

\* getSourceList(): the display names, then the trending pseudo-source
getSourceList == [i \in 1..(NumSources + 1) |->
                    IF i <= NumSources THEN sources[i].name ELSE "GitHub Trending"]

(***************************************************************************)
(* Strings whose characters matter are sequences of one-character strings. *)
(***************************************************************************)
IsSpace(c) == c \in {" ", "\t", "\n"}

RECURSIVE TrimStart(_)
TrimStart(s) == IF s # <<>> /\ IsSpace(Head(s)) THEN TrimStart(Tail(s)) ELSE s

RECURSIVE TrimEnd(_)
TrimEnd(s) == IF s # <<>> /\ IsSpace(s[Len(s)])
              THEN TrimEnd(SubSeq(s, 1, Len(s) - 1)) ELSE s

\* String.prototype.trim
Trim(s) == TrimEnd(TrimStart(s))

Untitled == <<"U", "n", "t", "i", "t", "l", "e", "d">>

\* the characters of a string literal
Chars(str) == [i \in 1..Len(str) |-> SubSeq(str, i, i)]

UpperCase == Chars("ABCDEFGHIJKLMNOPQRSTUVWXYZ")
LowerCase == Chars("abcdefghijklmnopqrstuvwxyz")

UpperSet == {UpperCase[i] : i \in 1..Len(UpperCase)}

LowerChar(c) ==
  IF c \in UpperSet
  THEN LowerCase[CHOOSE i \in 1..Len(UpperCase) : UpperCase[i] = c]
  ELSE c

\* String.prototype.toLowerCase
toLowerCase(s) == [i \in 1..Len(s) |-> LowerChar(s[i])]

\* String.prototype.includes
includes(s, part) ==
  \/ part = <<>>
  \/ \E i \in 1..(Len(s) - Len(part) + 1) :
       s[i] = part[1] /\ SubSeq(s, i, i + Len(part) - 1) = part

\* the kept marks of a marked string: its characters
Kept(marked) ==
  LET kept == SelectSeq(marked, LAMBDA m : m.keep)
  IN  [j \in 1..Len(kept) |-> kept[j].ch]

\* a match of /<[^>]*>/g starts at i: a "<" with a ">" after it that is not
\* inside the match of an earlier "<" (none stands between the last ">"
\* before i and i)
TagStart(s, i) ==
  /\ s[i] = "<"
  /\ \E j \in (i + 1)..Len(s) : s[j] = ">"
  /\ \A h \in 1..(i - 1) : s[h] = "<" => \E j \in (h + 1)..(i - 1) : s[j] = ">"

\* k is inside a match: after its "<", up to and including its first ">"
InTag(s, k) ==
  \E i \in 1..(k - 1) : TagStart(s, i) /\ \A j \in (i + 1)..(k - 1) : s[j] # ">"

\* .replace(/<[^>]*>/g, " "): every match goes for one space
ReplaceTags(s) ==
  Kept([k \in 1..Len(s) |->
          IF s[k] = "<" /\ TagStart(s, k) THEN [ch |-> " ", keep |-> TRUE]
          ELSE [ch |-> s[k], keep |-> ~InTag(s, k)]])

\* .replace(/\s+/g, c): every run of white space becomes the character c
ReplaceSpaceRuns(s, c) ==
  Kept([k \in 1..Len(s) |->
          IF IsSpace(s[k]) THEN [ch |-> c, keep |-> k = 1 \/ ~IsSpace(s[k - 1])]
          ELSE [ch |-> s[k], keep |-> TRUE]])

stripHtml(value) == Trim(ReplaceSpaceRuns(ReplaceTags(value), " "))

\* clampSummary's default for max
SummaryMax == 220

Ellipsis == <<".", ".", ".">>

\* clampSummary without the trim of the slice
clampSummaryNoTrim(value) ==
  IF Len(value) <= SummaryMax THEN value
  ELSE SubSeq(value, 1, SummaryMax) \o Ellipsis

\* value.length <= max ? value : `${value.slice(0, max).trim()}...`
clampSummary(value) ==
  IF Len(value) <= SummaryMax THEN value
  ELSE Trim(SubSeq(value, 1, SummaryMax)) \o Ellipsis

\* String.prototype.startsWith
startsWith(s, part) == Len(s) >= Len(part) /\ SubSeq(s, 1, Len(part)) = part

\* the place of the first character of s, from place i on, that ends a host
\* name ("/", "?", "#", or the ":" of a port); Len(s) + 1 when there is none
HostEnd(s, i) ==
  LET ends == {k \in i..Len(s) : s[k] \in {"/", "?", "#", ":"}}
  IN  IF ends = {} THEN Len(s) + 1 ELSE CHOOSE k \in ends : \A h \in ends : k <= h

\* what new URL(value) makes of the addresses feeds carry: an address
\* http://host... or https://host... parses, its hostname is the host in lower
\* case; a string without a scheme (no ":") does not parse, and none with an
\* empty host does.  <<>> stands for the TypeError new URL throws.
hostname(value) ==
  LET lowered == toLowerCase(value)
      start   == IF startsWith(lowered, Chars("https://")) THEN 9
                 ELSE IF startsWith(lowered, Chars("http://")) THEN 8
                 ELSE 0
  IN  IF start = 0 THEN <<>>
      ELSE SubSeq(lowered, start, HostEnd(lowered, start) - 1)

\* the place of the first occurrence of part in s, 0 when there is none
indexOf(s, part) ==
  LET places == {i \in 1..(Len(s) - Len(part) + 1) : SubSeq(s, i, i + Len(part) - 1) = part}
  IN  IF places = {} THEN 0 ELSE CHOOSE i \in places : \A j \in places : i <= j

\* s.replace(part, ""): the first occurrence of part is taken out
RemoveFirst(s, part) ==
  LET i == indexOf(s, part)
  IN  IF i = 0 THEN s ELSE SubSeq(s, 1, i - 1) \o SubSeq(s, i + Len(part), Len(s))

\* try { return new URL(value).hostname.replace("www.", "") } catch { return "source" }
extractDomain(value) ==
  LET host == hostname(value)
  IN  IF host = <<>> THEN Chars("source") ELSE RemoveFirst(host, Chars("www."))

(***************************************************************************)
(* lib/feed: the classifier.                                               *)
(***************************************************************************)
\* type FeedCategory
FeedCategory == {"Tech Conferences", "Product Launches", "Research Papers",
                 "Tech Jobs", "Industry News", "Open Source"}

conferenceSignals == <<Chars("conference"), Chars("summit"), Chars("keynote"),
                       Chars("meetup"), Chars("expo")>>
researchSignals   == <<Chars("paper"), Chars("arxiv"), Chars("research"), Chars("study")>>
jobSignals        == <<Chars("hiring"), Chars("job"), Chars("career"), Chars("role"),
                       Chars("recruiting")>>
productSignals    == <<Chars("launch"), Chars("release"), Chars("announces"),
                       Chars("introduces"), Chars("beta")>>

\* signals.some((signal) => lowered.includes(signal))
some(signals, lowered) == \E i \in 1..Len(signals) : includes(lowered, signals[i])

\* inferCategory with the tests for research and for conferences exchanged
inferCategoryResearchFirst(text, sourceCategory) ==
  LET lowered == toLowerCase(text)
  IN  IF some(researchSignals, lowered) THEN "Research Papers"
      ELSE IF some(conferenceSignals, lowered) THEN "Tech Conferences"
      ELSE IF some(jobSignals, lowered) THEN "Tech Jobs"
      ELSE IF some(productSignals, lowered) THEN "Product Launches"
      ELSE sourceCategory

inferCategory(text, sourceCategory) ==
  LET lowered == toLowerCase(text)
  IN  IF some(conferenceSignals, lowered) THEN "Tech Conferences"
      ELSE IF some(researchSignals, lowered) THEN "Research Papers"
      ELSE IF some(jobSignals, lowered) THEN "Tech Jobs"
      ELSE IF some(productSignals, lowered) THEN "Product Launches"
      ELSE sourceCategory

\* Object.entries(tagKeywords), in the order of the literal
tagKeywords ==
  << [tag |-> "AI/ML",    keywords |-> <<Chars("ai"), Chars("ml"), Chars("machine learning"),
                                         Chars("llm"), Chars("neural"), Chars("model"),
                                         Chars("prompt")>>],
     [tag |-> "DevOps",   keywords |-> <<Chars("kubernetes"), Chars("docker"), Chars("devops"),
                                         Chars("ci/cd"), Chars("terraform"), Chars("k8s")>>],
     [tag |-> "Web3",     keywords |-> <<Chars("web3"), Chars("blockchain"), Chars("crypto"),
                                         Chars("solana"), Chars("ethereum")>>],
     [tag |-> "Cloud",    keywords |-> <<Chars("aws"), Chars("azure"), Chars("gcp"),
                                         Chars("cloud"), Chars("serverless")>>],
     [tag |-> "Security", keywords |-> <<Chars("security"), Chars("vulnerability"),
                                         Chars("zero-day"), Chars("cve"), Chars("breach")>>],
     [tag |-> "Data",     keywords |-> <<Chars("database"), Chars("postgres"), Chars("mysql"),
                                         Chars("mongodb"), Chars("data")>>],
     [tag |-> "Frontend", keywords |-> <<Chars("react"), Chars("vue"), Chars("svelte"),
                                         Chars("css"), Chars("frontend")>>],
     [tag |-> "Backend",  keywords |-> <<Chars("api"), Chars("node"), Chars("fastapi"),
                                         Chars("go"), Chars("rust"), Chars("backend")>>],
     [tag |-> "Mobile",   keywords |-> <<Chars("ios"), Chars("android"), Chars("react native"),
                                         Chars("flutter")>>],
     [tag |-> "Startups", keywords |-> <<Chars("startup"), Chars("funding"), Chars("seed"),
                                         Chars("series"), Chars("venture")>>] >>

\* .filter(([, keywords]) => keywords.some(...)).map(([tag]) => tag)
RECURSIVE MatchingTags(_, _)
MatchingTags(entries, lowered) ==
  IF entries = <<>> THEN <<>>
  ELSE (IF some(Head(entries).keywords, lowered) THEN <<Head(entries).tag>> ELSE <<>>)
       \o MatchingTags(Tail(entries), lowered)

inferTags(text) ==
  LET tags == MatchingTags(tagKeywords, toLowerCase(text))
  IN  IF Len(tags) > 0 THEN tags ELSE <<"General">>

(***************************************************************************)
(* lib/feed: the scorer.                                                   *)
(*                                                                         *)
(* Instants are milliseconds.  A date string is the instant it parses to,  *)
(* or Garbled.  A weight is in hundredths.  A score is an exact fraction   *)
(* of OneScore * Hour, held as hi * Hour + lo (0 <= lo < Hour) so that the *)
(* product of recency and weight stays within 32 bits; nan marks NaN.      *)
(***************************************************************************)
\* 1000 * 60 * 60
Hour == 1000 * 60 * 60

\* a non-empty date string that no Date can be made of: getTime() is NaN
Garbled == -2

NaN == [nan |-> TRUE, hi |-> 0, lo |-> 0]

\* hoursAgo / 48: the milliseconds in which recency decays by 1
RecencyUnit == 48 * Hour

\* the score 1, in units of 1 / (100 * 48) (hi part)
OneScore == 100 * 48

\* x * weight for x in units of 1 / (48 * Hour)
Times(x, weight) ==
  [nan |-> FALSE,
   hi  |-> (x \div Hour) * weight + ((x % Hour) * weight) \div Hour,
   lo  |-> ((x % Hour) * weight) % Hour]

\* Math.min(1, x)
MinOne(x) == IF x.hi >= OneScore THEN [nan |-> FALSE, hi |-> OneScore, lo |-> 0] ELSE x

\* scoreItem without Math.max(0.1, ...)
scoreItemNoFloor(publishedAt, weight, dateNow) ==
  IF publishedAt = Garbled THEN NaN
  ELSE LET elapsed  == dateNow - publishedAt
           hoursAgo == IF elapsed > Hour THEN elapsed ELSE Hour
       IN  IF (RecencyUnit \div 10) * 12 - hoursAgo < 0
           THEN [nan |-> FALSE, hi |-> -1, lo |-> 0]
           ELSE MinOne(Times((RecencyUnit \div 10) * 12 - hoursAgo, weight))

\* scoreItem(publishedAt, weight), dateNow being what Date.now() returns in it.
\* Of a date that does not parse getTime() is NaN, which Math.max and Math.min
\* hand on.
scoreItem(publishedAt, weight, dateNow) ==
  IF publishedAt = Garbled THEN NaN
  ELSE LET \* now - published
           elapsed  == dateNow - publishedAt
           \* Math.max(elapsed / Hour, 1), in milliseconds
           hoursAgo == IF elapsed > Hour THEN elapsed ELSE Hour
           \* 1.2 - hoursAgo / 48, in units of 1 / (48 * Hour)
           decayed  == (RecencyUnit \div 10) * 12 - hoursAgo
           \* Math.max(0.1, decayed)
           recencyScore == IF decayed > RecencyUnit \div 10 THEN decayed ELSE RecencyUnit \div 10
       IN  MinOne(Times(recencyScore, weight))

\* the weight fetchGitHubTrending scores with
TrendingWeight == 90

(***************************************************************************)
(* Upstream data the endpoints may answer with.                            *)
(***************************************************************************)
\* records of a syndication feed, as rss-parser hands them over
UrlA == <<"h", "t", "t", "p", "s", ":", "/", "/", "a", ".", "i", "o", "/", "1">>
UrlB == <<"h", "t", "t", "p", "s", ":", "/", "/", "b", ".", "i", "o", "/", "2">>
GuidA == <<"g", "-", "1">>

RecA == [title |-> <<"K", "8", "s">>, link |-> UrlA, guid |-> GuidA,
         isoDate |-> 5, pubDate |-> NoDate,
         contentSnippet |-> Absent, content |-> Absent, summary |-> Absent]
RecB == [title |-> <<" ", "G", "o">>, link |-> Absent, guid |-> UrlB,
         isoDate |-> NoDate, pubDate |-> 9,
         contentSnippet |-> Absent, content |-> Absent, summary |-> Absent]
\* a malformed record: no title, no link, no identifier
RecBad == [title |-> Absent, link |-> Absent, guid |-> Absent,
           isoDate |-> 7, pubDate |-> NoDate,
           contentSnippet |-> Absent, content |-> Absent, summary |-> Absent]

\* what the endpoint of source s answers with when it answers: two of the
\* endpoints carry the same article
Feeds(s) == IF s % 2 = 1 THEN { <<RecA>> } ELSE { <<RecBad, RecB>>, <<RecB, RecA>> }

\* records that exercise the normalizer and the classifier
UrlC == Chars("https://c.io/3")
UrlD == Chars("https://d.io/4")
UrlE == Chars("https://e.io/5")
UrlF == Chars("https://f.io/6")
\* the address of a repository that is on the trending page
UrlG == Chars("https://github.com/vercel/next.js")

\* no date at all; a conference keyword and a research keyword
RecSummit == [title |-> Chars("arXiv Summit"), link |-> UrlC, guid |-> Absent,
              isoDate |-> NoDate, pubDate |-> NoDate,
              contentSnippet |-> Absent, content |-> Absent, summary |-> Absent]
\* a pubDate that no Date parses (rss-parser then sets no isoDate)
RecGarbled == [title |-> Chars("Hiring study"), link |-> UrlD, guid |-> Absent,
               isoDate |-> NoDate, pubDate |-> Garbled,
               contentSnippet |-> Absent, content |-> Absent, summary |-> Absent]
\* <link></link>: an empty link beside a guid
RecEmptyLink == [title |-> Chars("Job launch"), link |-> <<>>, guid |-> UrlE,
                 isoDate |-> 3, pubDate |-> NoDate,
                 contentSnippet |-> Absent, content |-> Absent, summary |-> Absent]
\* <title></title>: an empty title
RecBlank == [title |-> <<>>, link |-> UrlF, guid |-> Absent,
             isoDate |-> 0, pubDate |-> NoDate,
             contentSnippet |-> Absent, content |-> Chars("<b>Beta</b> of AI"),
             summary |-> Absent]
\* the guid of RecA under another link
RecDupId == [title |-> Chars("Docker"), link |-> UrlG, guid |-> GuidA,
             isoDate |-> 8, pubDate |-> NoDate,
             contentSnippet |-> Absent, content |-> Absent, summary |-> Absent]

\* a content longer than the summary, with a conference keyword at its end
UrlH == Chars("https://h.io/8")
RecLong == [title |-> Chars("Note"), link |-> UrlH, guid |-> Absent,
            isoDate |-> 4, pubDate |-> NoDate,
            contentSnippet |-> Absent,
            content |-> [i \in 1..(SummaryMax - 2) |-> "z"] \o Chars(" expo"),
            summary |-> Absent]

\* a content longer than the summary whose character 220 is a space
UrlI == Chars("https://i.io/9")
RecSpace == [title |-> Chars("Memo"), link |-> UrlI, guid |-> Absent,
             isoDate |-> 2, pubDate |-> NoDate,
             contentSnippet |-> [i \in 1..(SummaryMax - 1) |-> "y"] \o Chars(" tail"),
             content |-> Absent, summary |-> Absent]

\* links with "www." at the start of the host (in upper case, before a port)
\* and inside the host, and a link that is no absolute address
UrlJ == Chars("https://WWW.example.com:8080/a/b")
UrlL == Chars("https://awww.io/2")
UrlM == Chars("/post/3")
RecWww == [title |-> Chars("One"), link |-> UrlJ, guid |-> GuidA,
           isoDate |-> 6, pubDate |-> NoDate,
           contentSnippet |-> Absent, content |-> Absent, summary |-> Absent]
RecInner == [title |-> Chars("Three"), link |-> UrlL, guid |-> Absent,
             isoDate |-> 6, pubDate |-> NoDate,
             contentSnippet |-> Absent, content |-> Absent, summary |-> Absent]
RecRelative == [title |-> Chars("Four"), link |-> UrlM, guid |-> Absent,
                isoDate |-> 6, pubDate |-> NoDate,
                contentSnippet |-> Absent, content |-> Absent, summary |-> Absent]

\* what an endpoint answers with in the runs that examine the pipeline
PipelineFeeds ==
  { <<RecA, RecSummit>>, <<RecSummit, RecA>>, <<RecA, RecDupId>>,
    <<RecGarbled, RecB>>, <<RecEmptyLink, RecBlank>>, <<RecBad, RecB>>,
    <<RecLong>> }

\* Answers whose records exercise the summary and the domain of an item.
TextFeeds ==
  { <<RecLong, RecSpace, RecRelative>>, <<RecWww, RecInner>>, <<RecA>> }

\* entries (article.Box-row) of the trending page: the text of "h2 a" and of "p"
RowX == [name |-> <<" ", "v", "e", "r", "c", "e", "l", " ", "/", " ", "n", "e", "x", "t", ".", "j", "s">>, description |-> <<"U", "I">>]

\* the answers of the trending page
Pages == { <<RowX>> }

\* entry i of a page that lists more repositories than the scraper takes
Row(i) == [name |-> Chars("acme / ") \o <<LowerCase[i]>>, description |-> <<>>]

LongPage == [i \in 1..(TrendingLastIndex + 3) |-> Row(i)]

\* the answers of the trending page in the runs that examine the scraper
ScrapePages == Pages \cup {LongPage}

(***************************************************************************)
(* lib/feed: normalisation of one record, merge, deduplication, sort.      *)
(***************************************************************************)
\* item.title?.trim() ?? "Untitled"
ItemTitle(item) == IF item.title = Absent THEN Untitled ELSE Trim(item.title)

\* item.link ?? item.guid ?? ""
ItemLink(item) == IF item.link # Absent THEN item.link
                  ELSE IF item.guid # Absent THEN item.guid
                  ELSE <<>>

\* item.isoDate || item.pubDate || new Date().toISOString()
ItemPublishedAt(item, now) == IF item.isoDate # NoDate THEN item.isoDate
                              ELSE IF item.pubDate # NoDate THEN item.pubDate
                              ELSE now

\* a || b for strings: a unless it is undefined or empty
OrElse(a, b) == IF a # Absent /\ a # <<>> THEN a ELSE b

\* stripHtml(item.contentSnippet || item.content || item.summary || title)
ItemContent(item, title) ==
  stripHtml(OrElse(item.contentSnippet, OrElse(item.content, OrElse(item.summary, title))))

\* `${source.id}-${item.guid || link || title}`.replace(/\s+/g, "-")
ItemId(item, s, link, title) ==
  ReplaceSpaceRuns(Chars(sources[s].id) \o <<"-">> \o OrElse(item.guid, OrElse(link, title)),
                   "-")

\* the callback of feed.items.map: one upstream record to one FeedItem; now
\* is the clock of the step
NormalizeItem(item, s, now) ==
  LET title          == ItemTitle(item)
      link           == ItemLink(item)
      content        == ItemContent(item, title)
      publishedAt    == ItemPublishedAt(item, now)
      textForSignals == title \o <<" ">> \o content
  IN  [ id          |-> ItemId(item, s, link, title),
        title       |-> title,
        url         |-> link,
        source      |-> sources[s].name,
        sourceDomain |-> extractDomain(OrElse(link, Chars(sources[s].url))),
        publishedAt |-> publishedAt,
        summary     |-> clampSummary(content),
        category    |-> inferCategory(textForSignals, sources[s].category),
        tags        |-> inferTags(textForSignals),
        score       |-> scoreItem(publishedAt, sources[s].weight, now) ]

\* feed.items.map(...)
NormalizeFeed(feed, s, now) == [i \in 1..Len(feed) |-> NormalizeItem(feed[i], s, now)]

\* .replace(/\s+/g, "")
RECURSIVE RemoveSpaces(_)
RemoveSpaces(s) == IF s = <<>> THEN <<>>
                   ELSE IF IsSpace(Head(s)) THEN RemoveSpaces(Tail(s))
                   ELSE <<Head(s)>> \o RemoveSpaces(Tail(s))

\* repo.replace("/", " / "): the first "/" only
RECURSIVE SpaceFirstSlash(_)
SpaceFirstSlash(s) == IF s = <<>> THEN <<>>
                      ELSE IF Head(s) = "/" THEN <<" ", "/", " ">> \o Tail(s)
                      ELSE <<Head(s)>> \o SpaceFirstSlash(Tail(s))

GitHubPrefix == <<"h", "t", "t", "p", "s", ":", "/", "/", "g", "i", "t", "h", "u", "b", ".", "c", "o", "m", "/">>

\* the cheerio callback of fetchGitHubTrending for one article.Box-row
TrendingItem(entry, now) ==
  LET repo           == RemoveSpaces(entry.name)
      description    == Trim(entry.description)
      textForSignals == repo \o <<" ">> \o description
  IN  [ id          |-> Chars("github-trending-") \o repo,
        title       |-> SpaceFirstSlash(repo),
        url         |-> GitHubPrefix \o repo,
        source      |-> "GitHub Trending",
        sourceDomain |-> Chars("github.com"),
        publishedAt |-> now,
        summary     |-> clampSummary(OrElse(description, Chars("Trending repository."))),
        category    |-> inferCategory(textForSignals, "Open Source"),
        tags        |-> inferTags(textForSignals),
        score       |-> scoreItem(now, TrendingWeight, now) ]

\* the callback without `if (index > 10) return`
TrendingItemsAll(page, now) == [i \in 1..Len(page) |-> TrendingItem(page[i], now)]

\* $("article.Box-row").each(...): rows with index > 10 are skipped
TrendingItems(page, now) ==
  LET n == IF Len(page) > TrendingLastIndex + 1 THEN TrendingLastIndex + 1 ELSE Len(page)
  IN  [i \in 1..n |-> TrendingItem(page[i], now)]

\* results.flat()
RECURSIVE Flat(_)
Flat(lists) == IF lists = <<>> THEN <<>> ELSE Head(lists) \o Flat(Tail(lists))

\* the filter taking the key of the deduplication, url || title
HasUrlOrTitle(item) == item.url # <<>> \/ item.title # <<>>

\* .filter((item) => item.url)
HasUrl(item) == item.url # <<>>

\* const key = item.url || item.title
DedupeKey(item) == IF item.url # <<>> THEN item.url ELSE item.title

\* the loop without the test of deduped.has(key): the Map keeps the place of
\* the first item of a key and the value of the last
RECURSIVE DedupeLastWins(_, _)
DedupeLastWins(flat, seen) ==
  IF flat = <<>> THEN <<>>
  ELSE IF DedupeKey(Head(flat)) \in seen THEN DedupeLastWins(Tail(flat), seen)
  ELSE LET same == SelectSeq(flat, LAMBDA x : DedupeKey(x) = DedupeKey(Head(flat)))
       IN  <<same[Len(same)]>>
             \o DedupeLastWins(Tail(flat), seen \cup {DedupeKey(Head(flat))})

\* the loop over flat filling the Map: the first item of every key is kept,
\* in insertion order
RECURSIVE Dedupe(_, _)
Dedupe(flat, seen) ==
  IF flat = <<>> THEN <<>>
  ELSE IF DedupeKey(Head(flat)) \in seen THEN Dedupe(Tail(flat), seen)
  ELSE <<Head(flat)>> \o Dedupe(Tail(flat), seen \cup {DedupeKey(Head(flat))})

\* the comparator of the sort: new Date(b.publishedAt).getTime() -
\* new Date(a.publishedAt).getTime(); the difference is NaN when a date does
\* not parse, and sort takes a NaN of the comparator as 0
Compare(a, b) ==
  IF a.publishedAt = Garbled \/ b.publishedAt = Garbled THEN 0
  ELSE b.publishedAt - a.publishedAt

\* the comparator orders b before a when b is more recent; Array.prototype.sort
\* is stable
RECURSIVE InsertByDate(_, _)
InsertByDate(item, sorted) ==
  IF sorted = <<>> THEN <<item>>
  ELSE IF Compare(Head(sorted), item) <= 0
       THEN <<Head(sorted)>> \o InsertByDate(item, Tail(sorted))
       ELSE <<item>> \o sorted

RECURSIVE SortByDate(_)
SortByDate(items) ==
  IF items = <<>> THEN <<>>
  ELSE InsertByDate(items[Len(items)], SortByDate(SubSeq(items, 1, Len(items) - 1)))

\* fetchFeedItems after the awaits: concat, filter, dedupe
Deduped(perSource, trending) ==
  Dedupe(SelectSeq(Flat(perSource) \o trending, HasUrl), {})

\* fetchFeedItems after the awaits: concat, filter, dedupe, sort
MergeItems(perSource, trending) == SortByDate(Deduped(perSource, trending))

\* the comparator is consistent unless a date that does not parse (equal to
\* everything) stands beside two dates that differ
Consistent(items) ==
  ~ \E i, j, k \in 1..Len(items) :
       /\ items[i].publishedAt = Garbled
       /\ items[j].publishedAt # Garbled /\ items[k].publishedAt # Garbled
       /\ items[j].publishedAt # items[k].publishedAt

\* the arrangements of a list
Arrangements(items) ==
  { [i \in 1..Len(items) |-> items[p[i]]] : p \in Permutations(1..Len(items)) }

\* what Array.prototype.sort may return: the stable sort, and with a
\* comparator that is not consistent an order the implementation defines
SortOutcomes(items) ==
  IF Consistent(items) THEN {SortByDate(items)} ELSE Arrangements(items)

\* what fetchFeedItems may return
MergeOutcomes(perSource, trending) == SortOutcomes(Deduped(perSource, trending))

(***************************************************************************)
(* The state of the server process.                                        *)
(***************************************************************************)
VARIABLES
  clock,            \* Date.now(), in milliseconds
  ticks,            \* how often the clock was advanced
  techflowCache,    \* globalThis.techflowCache: <<>> (undefined) or <<entry>>
  pc,               \* where each request's GET stands
  force,            \* GET's local `force`
  now,              \* GET's local `now`
  cache,            \* GET's local `cache`, the slot as getCache() returned it
  results,          \* per request and source: the promise of the map callback
  githubTrending,   \* per request: the promise of fetchGitHubTrending()
  response,         \* per request: <<>> or <<the JSON body sent>>
  parsedFeed,       \* per request and source: the callback's `feed.items`, once parsed
  trendingHtml,     \* per request: the article.Box-row entries of `html`, once loaded
  requested,        \* per request and endpoint (0: the trending page): calls made
  scoreCall,        \* <<>> or <<a call of scoreItem by itself: arguments, Date.now(), result>>
  order,            \* history: the requests that ran the pipeline, as they completed
  inFlightAtStart,  \* history: the runs in flight when the request started its run
  collections,      \* the rows of table Collection: id, name, userId
  collectionItems,  \* the rows of table CollectionItem: collectionId, articleId, url
  calls             \* per request to the collection routes: where its handler stands

vars == <<clock, ticks, techflowCache, pc, force, now, cache, results,
          githubTrending, response, parsedFeed, trendingHtml, requested, scoreCall,
          order, inFlightAtStart, collections, collectionItems, calls>>

\* the state of the feed route and of the pipeline
feedVars == <<clock, ticks, techflowCache, pc, force, now, cache, results,
              githubTrending, response, parsedFeed, trendingHtml, requested, scoreCall,
              order, inFlightAtStart>>

\* the database and the handlers of the collection routes
dbVars == <<collections, collectionItems, calls>>

\* a request to a collection route that has not arrived
NoCall == [op |-> "none", pc |-> "idle", user |-> "", id |-> 0,
           body |-> [articleId |-> "", url |-> ""], existing |-> {},
           status |-> 0, result |-> {}]

Idle    == [st |-> "idle",    value |-> <<>>]
Pending == [st |-> "pending", value |-> <<>>]

\* the requests whose pipeline run is under way
Running == {r \in Reqs : pc[r] \in {"fetching", "trending"}}

Init ==
  /\ clock = 0
  /\ ticks = 0
  /\ techflowCache = <<>>
  /\ pc = [r \in Reqs |-> "idle"]
  /\ force = [r \in Reqs |-> FALSE]
  /\ now = [r \in Reqs |-> 0]
  /\ cache = [r \in Reqs |-> <<>>]
  /\ results = [r \in Reqs |-> [s \in Sources |-> Idle]]
  /\ githubTrending = [r \in Reqs |-> Idle]
  /\ response = [r \in Reqs |-> <<>>]
  /\ parsedFeed = [r \in Reqs |-> [s \in Sources |-> <<>>]]
  /\ trendingHtml = [r \in Reqs |-> <<>>]
  /\ requested = [r \in Reqs |-> [e \in 0..NumSources |-> 0]]
  /\ scoreCall = <<>>
  /\ order = <<>>
  /\ inFlightAtStart = [r \in Reqs |-> {}]
  /\ collections = {}
  /\ collectionItems = {}
  /\ calls = [c \in 1..MaxCalls |-> NoCall]

(***************************************************************************)
(* api/feed route.                                                         *)
(***************************************************************************)
\* getCache()
getCache == techflowCache

\* setCache appending the new items to the stored ones
setCacheMerging(entry) ==
  IF techflowCache = <<>> THEN <<entry>>
  ELSE <<[items |-> techflowCache[1].items \o entry.items, fetchedAt |-> entry.fetchedAt]>>

\* setCache leaving alone an entry that is younger than the TTL
setCacheUnlessFresh(entry) ==
  IF techflowCache # <<>> /\ entry.fetchedAt - techflowCache[1].fetchedAt < CACHE_TTL_MS
  THEN techflowCache ELSE <<entry>>

\* setCache emptying the slot when the run brought nothing
setCacheOrClear(entry) == IF entry.items = <<>> THEN <<>> ELSE <<entry>>

\* setCache writing only into the empty slot
setCacheOnce(entry) == IF techflowCache = <<>> THEN <<entry>> ELSE techflowCache

\* setCache keeping the stored entry when the run brought nothing
setCacheIfItems(entry) == IF entry.items = <<>> THEN techflowCache ELSE <<entry>>

\* setCache(cache): the slot is assigned the new entry
setCache(entry) == <<entry>>

\* the early return with the comparison turned around
ServeFromCacheReversed(f, c, n) ==
  ~f /\ c # <<>> /\ n - c[1].fetchedAt > CACHE_TTL_MS

\* the early return without the test of `force`
ServeFromCacheAnyForce(f, c, n) ==
  c # <<>> /\ n - c[1].fetchedAt < CACHE_TTL_MS

\* the early return with an entry of age TTL still taken as fresh
ServeFromCacheInclusive(f, c, n) ==
  ~f /\ c # <<>> /\ n - c[1].fetchedAt <= CACHE_TTL_MS

\* the condition of the early return of GET
ServeFromCache(f, c, n) ==
  ~f /\ c # <<>> /\ n - c[1].fetchedAt < CACHE_TTL_MS

\* the body of the early return
CachedBody(c) ==
  [items |-> c[1].items, fetchedAt |-> c[1].fetchedAt,
   sources |-> getSourceList, cached |-> TRUE]

\* the body sent after a pipeline run
FreshBody(items, fetchedAt) ==
  [items |-> items, fetchedAt |-> fetchedAt,
   sources |-> getSourceList, cached |-> FALSE]

\* the instant of the request stored in place of the instant of completion
FetchedAtRequest(r) == now[r]

\* the instant GET stores with the items of a run: Date.now() read after the
\* await of fetchFeedItems()
FetchedAt(r) == clock

(***************************************************************************)
(* The promises of one pipeline run.                                       *)
(***************************************************************************)
\* the map callback got the feed: the try block returns the mapped items
SourceFulfilled(feed, s) == [st |-> "ok", value |-> NormalizeFeed(feed, s, clock)]

\* the map callback without its catch block: the rejection goes on to Promise.all
SourceCatchRethrow == [st |-> "rejected", value |-> <<>>]

\* parser.parseURL rejected (network error, bad status, parse error, timeout):
\* the catch block returns []
SourceCatch == [st |-> "failed", value |-> <<>>]

\* the trending page was retrieved with an ok status and parsed
TrendingFulfilled(page) == [st |-> "ok", value |-> TrendingItems(page, clock)]

\* if (!response.ok) return []
TrendingNotOk == [st |-> "failed", value |-> <<>>]

\* fetchGitHubTrending without its catch block
TrendingCatchRethrow == [st |-> "rejected", value |-> <<>>]

\* fetch or cheerio threw: the catch block returns []
TrendingCatch == [st |-> "failed", value |-> <<>>]

\* GET emptying the slot before a forced refresh
GETInvalidating(r, f) ==
  /\ pc[r] = "idle"
  /\ r > 1 => pc[r - 1] # "idle"
  /\ force' = [force EXCEPT ![r] = f]
  /\ now' = [now EXCEPT ![r] = clock]
  /\ cache' = [cache EXCEPT ![r] = getCache]
  /\ IF ServeFromCache(force'[r], cache'[r], now'[r])
     THEN /\ response' = [response EXCEPT ![r] = <<CachedBody(cache'[r])>>]
          /\ pc' = [pc EXCEPT ![r] = "done"]
          /\ UNCHANGED <<results, githubTrending, requested, inFlightAtStart>>
     ELSE /\ results' = [results EXCEPT ![r] = [s \in Sources |-> Pending]]
          /\ requested' = [requested EXCEPT ![r] =
                             [e \in 0..NumSources |-> IF e \in Sources THEN @[e] + 1 ELSE @[e]]]
          /\ pc' = [pc EXCEPT ![r] = "fetching"]
          /\ inFlightAtStart' = [inFlightAtStart EXCEPT ![r] = Running]
          /\ UNCHANGED <<githubTrending, response>>
  /\ techflowCache' = IF pc'[r] = "fetching" /\ f THEN <<>> ELSE techflowCache
  /\ UNCHANGED <<clock, ticks, parsedFeed, trendingHtml, scoreCall, order>>
  /\ UNCHANGED dbVars

(***************************************************************************)
(* Steps.                                                                  *)
(***************************************************************************)
\* A request arrives: GET from its first line to the early return, or to the
\* await of Promise.all, every parser.parseURL being called on the way;
\* fetchGitHubTrending() is not called before that await is over.
\* Requests are numbered in their order of arrival.
GET(r, f) ==
  /\ pc[r] = "idle"
  /\ r > 1 => pc[r - 1] # "idle"
  /\ force' = [force EXCEPT ![r] = f]
  /\ now' = [now EXCEPT ![r] = clock]
  /\ cache' = [cache EXCEPT ![r] = getCache]
  /\ IF ServeFromCache(force'[r], cache'[r], now'[r])
     THEN /\ response' = [response EXCEPT ![r] = <<CachedBody(cache'[r])>>]
          /\ pc' = [pc EXCEPT ![r] = "done"]
          /\ UNCHANGED <<results, githubTrending, requested, inFlightAtStart>>
     ELSE /\ results' = [results EXCEPT ![r] = [s \in Sources |-> Pending]]
          /\ requested' = [requested EXCEPT ![r] =
                             [e \in 0..NumSources |-> IF e \in Sources THEN @[e] + 1 ELSE @[e]]]
          /\ pc' = [pc EXCEPT ![r] = "fetching"]
          /\ inFlightAtStart' = [inFlightAtStart EXCEPT ![r] = Running]
          /\ UNCHANGED <<githubTrending, response>>
  /\ UNCHANGED <<clock, ticks, techflowCache, parsedFeed, trendingHtml, scoreCall, order>>
  /\ UNCHANGED dbVars

\* The rest of GET once fetchFeedItems() has resolved: merge, Date.now(),
\* setCache, the response.
Finish(r, trending) ==
  \E items \in MergeOutcomes([s \in Sources |-> results[r][s].value], trending.value) :
  LET fetchedAt == FetchedAt(r)
  IN  /\ techflowCache' = setCache([items |-> items, fetchedAt |-> fetchedAt])
      /\ response' = [response EXCEPT ![r] = <<FreshBody(items, fetchedAt)>>]
      /\ pc' = [pc EXCEPT ![r] = "done"]
      /\ githubTrending' = [githubTrending EXCEPT ![r] = trending]
      /\ order' = Append(order, r)

\* The promise of source s settles. A rejected promise rejects Promise.all and
\* with it GET; when the last one is fulfilled fetchFeedItems goes on to call
\* fetchGitHubTrending().
SettleSource(r, s, outcome) ==
  LET res == [results[r] EXCEPT ![s] = outcome]
  IN  /\ pc[r] = "fetching"
      /\ results[r][s].st = "pending"
      /\ results' = [results EXCEPT ![r] = res]
      /\ IF outcome.st = "rejected"
         THEN /\ pc' = [pc EXCEPT ![r] = "error"]
              /\ UNCHANGED <<githubTrending, requested>>
         ELSE IF \A t \in Sources : res[t].st # "pending"
         THEN /\ pc' = [pc EXCEPT ![r] = "trending"]
              /\ githubTrending' = [githubTrending EXCEPT ![r] = Pending]
              /\ requested' = [requested EXCEPT ![r][0] = @ + 1]
         ELSE UNCHANGED <<pc, githubTrending, requested>>
      /\ UNCHANGED <<clock, ticks, techflowCache, force, now, cache, response,
                     trendingHtml, scoreCall, order, inFlightAtStart>>
      /\ UNCHANGED dbVars

\* the endpoint of source s answers with a feed
ParseUrlOk(r, s, feed) ==
  /\ SettleSource(r, s, SourceFulfilled(feed, s))
  /\ parsedFeed' = [parsedFeed EXCEPT ![r][s] = feed]

\* the catch block calling parser.parseURL once more
ParseUrlErrorRetry(r, s) ==
  /\ pc[r] = "fetching"
  /\ results[r][s].st = "pending"
  /\ requested' = [requested EXCEPT ![r][s] = @ + 1]
  /\ UNCHANGED <<clock, ticks, techflowCache, pc, force, now, cache, results,
                 githubTrending, response, parsedFeed, trendingHtml, scoreCall, order,
                 inFlightAtStart>>
  /\ UNCHANGED dbVars

\* the endpoint of source s fails: network error, error status, unparsable body
ParseUrlError(r, s) ==
  /\ SettleSource(r, s, SourceCatch)
  /\ UNCHANGED parsedFeed

\* the parser's timer (timeout: 10000) fires before the endpoint has answered
ParseUrlTimeout(r, s) ==
  /\ SettleSource(r, s, SourceCatch)
  /\ UNCHANGED parsedFeed

\* The promise of fetchGitHubTrending() settles, and GET runs to its end.
SettleTrending(r, outcome) ==
  /\ pc[r] = "trending"
  /\ githubTrending[r].st = "pending"
  /\ IF outcome.st = "rejected"
     THEN /\ pc' = [pc EXCEPT ![r] = "error"]
          /\ githubTrending' = [githubTrending EXCEPT ![r] = outcome]
          /\ UNCHANGED <<techflowCache, response, order>>
     ELSE Finish(r, outcome)
  /\ UNCHANGED <<clock, ticks, force, now, cache, results, parsedFeed, requested,
                 scoreCall, inFlightAtStart>>
  /\ UNCHANGED dbVars

\* the trending page answers with an ok status
TrendingOk(r, page) ==
  /\ SettleTrending(r, TrendingFulfilled(page))
  /\ trendingHtml' = [trendingHtml EXCEPT ![r] = page]

\* the trending page answers with an error status
TrendingBadStatus(r) ==
  /\ SettleTrending(r, TrendingNotOk)
  /\ UNCHANGED trendingHtml

\* fetch rejects, or parsing the page throws
TrendingError(r) ==
  /\ SettleTrending(r, TrendingCatch)
  /\ UNCHANGED trendingHtml

\* time passes
TickDeltas == {1, CACHE_TTL_MS - 1}

Tick(d) ==
  /\ ticks < MaxTicks
  /\ ticks' = ticks + 1
  /\ clock' = clock + d
  /\ UNCHANGED <<techflowCache, pc, force, now, cache, results, githubTrending,
                 response, parsedFeed, trendingHtml, requested, scoreCall, order,
                 inFlightAtStart>>
  /\ UNCHANGED dbVars

Next ==
  \/ \E r \in Reqs, f \in BOOLEAN : GET(r, f)
  \/ \E r \in Reqs, s \in Sources : \E feed \in Feeds(s) : ParseUrlOk(r, s, feed)
  \/ \E r \in Reqs, s \in Sources : ParseUrlError(r, s)
  \/ \E r \in Reqs, s \in Sources : ParseUrlTimeout(r, s)
  \/ \E r \in Reqs, page \in Pages : TrendingOk(r, page)
  \/ \E r \in Reqs : TrendingBadStatus(r)
  \/ \E r \in Reqs : TrendingError(r)
  \/ \E d \in TickDeltas : Tick(d)

Spec == Init /\ [][Next]_vars

\* One request that runs the pipeline, over the richer answers.
PipelineTickDeltas == {1, 100 * Hour}

PipelineNext ==
  \/ GET(1, FALSE)
  \/ \E s \in Sources : \E feed \in PipelineFeeds : ParseUrlOk(1, s, feed)
  \/ \E s \in Sources : ParseUrlError(1, s)
  \/ \E page \in Pages : TrendingOk(1, page)
  \/ TrendingBadStatus(1)
  \/ \E d \in PipelineTickDeltas : Tick(d)

PipelineSpec == Init /\ [][PipelineNext]_vars

\* One request that runs the pipeline, over the answers of TextFeeds.
TextNext ==
  \/ GET(1, FALSE)
  \/ \E s \in Sources : \E feed \in TextFeeds : ParseUrlOk(1, s, feed)
  \/ \E s \in Sources : ParseUrlError(1, s)
  \/ \E page \in Pages : TrendingOk(1, page)
  \/ TrendingBadStatus(1)
  \/ \E d \in PipelineTickDeltas : Tick(d)

TextSpec == Init /\ [][TextNext]_vars

\* The process after an earlier request has filled the slot: its run, at
\* instant 0, got RecA of the first source and nothing else.
WarmItems ==
  MergeItems([s \in Sources |-> IF s = 1 THEN NormalizeFeed(<<RecA>>, 1, 0) ELSE <<>>], <<>>)

WarmInit ==
  /\ clock = 0
  /\ ticks = 0
  /\ techflowCache = setCache([items |-> WarmItems, fetchedAt |-> 0])
  /\ pc = [r \in Reqs |-> "idle"]
  /\ force = [r \in Reqs |-> FALSE]
  /\ now = [r \in Reqs |-> 0]
  /\ cache = [r \in Reqs |-> <<>>]
  /\ results = [r \in Reqs |-> [s \in Sources |-> Idle]]
  /\ githubTrending = [r \in Reqs |-> Idle]
  /\ response = [r \in Reqs |-> <<>>]
  /\ parsedFeed = [r \in Reqs |-> [s \in Sources |-> <<>>]]
  /\ trendingHtml = [r \in Reqs |-> <<>>]
  /\ requested = [r \in Reqs |-> [e \in 0..NumSources |-> 0]]
  /\ scoreCall = <<>>
  /\ order = <<>>
  /\ inFlightAtStart = [r \in Reqs |-> {}]
  /\ collections = {}
  /\ collectionItems = {}
  /\ calls = [c \in 1..MaxCalls |-> NoCall]

WarmSpec == WarmInit /\ [][Next]_vars

\* One request that runs the pipeline, over the longer trending pages.
ScrapeNext ==
  \/ \E f \in BOOLEAN : GET(1, f)
  \/ \E s \in Sources : \E feed \in Feeds(s) : ParseUrlOk(1, s, feed)
  \/ \E s \in Sources : ParseUrlTimeout(1, s)
  \/ \E page \in ScrapePages : TrendingOk(1, page)
  \/ TrendingError(1)
  \/ \E d \in PipelineTickDeltas : Tick(d)

ScrapeSpec == Init /\ [][ScrapeNext]_vars

\* scoreItem called by itself, as a unit test calls it.
\* the weights of the registry (0.6 to 0.95), of the trending page, and 1.0
ScoreWeights == {60, 70, 75, 80, 85, 90, 95, 100}

\* what Date.now() returns in the call
ScoreNows == {200 * Hour, 200 * Hour + 1, 200 * Hour + 30 * 60 * 1000}

\* the dates scored: now, up to an hour ago, within the decay, beyond it, in
\* the future, and one that does not parse
ScoreDates ==
  { 200 * Hour, 200 * Hour - 1, 199 * Hour, 199 * Hour - 1, 176 * Hour,
    148 * Hour, 147 * Hour, 100 * Hour, 0, 205 * Hour, Garbled }

ScoreItemCall(publishedAt, weight, dateNow) ==
  /\ scoreCall' = << [publishedAt |-> publishedAt, weight |-> weight, now |-> dateNow,
                      score |-> scoreItem(publishedAt, weight, dateNow)] >>
  /\ UNCHANGED <<clock, ticks, techflowCache, pc, force, now, cache, results,
                 githubTrending, response, parsedFeed, trendingHtml, requested, order,
                 inFlightAtStart>>
  /\ UNCHANGED dbVars

ScoreNext ==
  \E publishedAt \in ScoreDates, weight \in ScoreWeights, dateNow \in ScoreNows :
    ScoreItemCall(publishedAt, weight, dateNow)

ScoreSpec == Init /\ [][ScoreNext]_vars

\* the timer of rss-parser is the only step the process takes by itself while
\* a retrieval is outstanding; the answers of the endpoints are not promised
LiveSpec == Spec /\ \A r \in Reqs, s \in Sources : WF_vars(ParseUrlTimeout(r, s))

(***************************************************************************)
(* api/collections and api/collections/[id]/items routes.  Every await of  *)
(* a handler that reads or writes the database is a step of its own;       *)
(* getServerSession and request.json() touch no collection and are taken   *)
(* together with the code that follows them.                               *)
(***************************************************************************)
Calls == 1..MaxCalls

\* session.user.id of the signed-in users
Users == {"ann", "bob"}
\* getServerSession returned no session, or one without user
NoUser == ""

\* const defaults = ["Saved", "Learning", "To Watch"]
defaults == <<"Saved", "Learning", "To Watch">>

\* the [id] of the route: the first collection ever created, and an id no
\* collection has
TargetIds == {1, 0}

\* request bodies of POST: complete, without articleId, without url
PostBodies == { [articleId |-> "a1", url |-> "https://a.io/1"],
                [articleId |-> "",   url |-> "https://a.io/1"],
                [articleId |-> "a1", url |-> ""] }

\* request bodies of DELETE: with and without articleId
DeleteBodies == { [articleId |-> "a1", url |-> ""], [articleId |-> "", url |-> ""] }

\* NextResponse.json(body, { status })
Respond(c, status, result) ==
  calls' = [calls EXCEPT ![c].pc = "done", ![c].status = status, ![c].result = result]

\* prisma.collection.findMany({ where: { userId } })
findMany(userId) == {col \in collections : col.userId = userId}

\* defaults.filter((name) => !existingNames.has(name))
missing(existing) ==
  SelectSeq(defaults, LAMBDA name : \A col \in existing : col.name # name)

\* the rows the transaction of creates inserts, each under a new id
created(names, userId) ==
  { [id |-> Cardinality(collections) + i, name |-> names[i], userId |-> userId] :
      i \in 1..Len(names) }

\* findFirst with a filter on the id alone
findFirstAnyUser(id, userId) == {col \in collections : col.id = id}

\* prisma.collection.findFirst({ where: { id, userId: session.user.id } })
findFirst(id, userId) == {col \in collections : col.id = id /\ col.userId = userId}

\* a request arrives at a route: calls are numbered in their order of arrival
Arrive(c, op, user, id, body, next) ==
  /\ calls[c].pc = "idle"
  /\ c > 1 => calls[c - 1].pc # "idle"
  /\ calls' = [calls EXCEPT ![c] =
                 IF user = NoUser
                 THEN [NoCall EXCEPT !.op = op, !.id = id, !.body = body, !.pc = "done",
                                     !.status = IF op = "GET" THEN 200 ELSE 401]
                 ELSE [NoCall EXCEPT !.op = op, !.user = user, !.id = id, !.body = body,
                                     !.pc = next]]
  /\ UNCHANGED <<collections, collectionItems>>
  /\ UNCHANGED feedVars

\* GET /api/collections up to the await of findMany in ensureDefaults; without
\* a signed-in user it answers [] with status 200
CollectionsGET(c, user) ==
  /\ calls[c].op = "none"
  /\ Arrive(c, "GET", user, 0, NoCall.body, "findMany")

\* ensureDefaults from the result of findMany to its return or to the await
\* of the transaction
FindManyDone(c) ==
  /\ calls[c].pc = "findMany"
  /\ LET existing == findMany(calls[c].user)
     IN  IF Len(missing(existing)) = 0
         THEN Respond(c, 200, existing)
         ELSE calls' = [calls EXCEPT ![c].pc = "transaction", ![c].existing = existing]
  /\ UNCHANGED <<collections, collectionItems>>
  /\ UNCHANGED feedVars

\* prisma.$transaction(missing.map(create)) commits; GET answers with
\* [...existing, ...created]
TransactionDone(c) ==
  /\ calls[c].pc = "transaction"
  /\ LET rows == created(missing(calls[c].existing), calls[c].user)
     IN  /\ collections' = collections \cup rows
         /\ Respond(c, 200, calls[c].existing \cup rows)
  /\ UNCHANGED collectionItems
  /\ UNCHANGED feedVars

\* POST /api/collections/[id]/items up to the await of findFirst; 401 without
\* a signed-in user
ItemsPOST(c, user, id, body) ==
  /\ calls[c].op = "none"
  /\ Arrive(c, "POST", user, id, body, "findFirst")

\* DELETE /api/collections/[id]/items up to the await of findFirst
ItemsDELETE(c, user, id, body) ==
  /\ calls[c].op = "none"
  /\ Arrive(c, "DELETE", user, id, body, "findFirst")

\* POST and DELETE from the result of findFirst to the await of the write:
\* 404 when the user has no collection of that id, 400 when the body lacks
\* articleId (or, for POST, url)
FindFirstDone(c) ==
  /\ calls[c].pc = "findFirst"
  /\ IF findFirst(calls[c].id, calls[c].user) = {}
     THEN Respond(c, 404, {})
     ELSE IF \/ calls[c].body.articleId = ""
             \/ (calls[c].op = "POST" /\ calls[c].body.url = "")
     THEN Respond(c, 400, {})
     ELSE calls' = [calls EXCEPT ![c].pc = "write"]
  /\ UNCHANGED <<collections, collectionItems>>
  /\ UNCHANGED feedVars

\* prisma.collectionItem.upsert: the row of (collectionId, articleId) is
\* created unless there is one (update: {}); the answer is { ok: true }
UpsertDone(c) ==
  /\ calls[c].pc = "write" /\ calls[c].op = "POST"
  /\ collectionItems' =
       IF \E row \in collectionItems :
            row.collectionId = calls[c].id /\ row.articleId = calls[c].body.articleId
       THEN collectionItems
       ELSE collectionItems \cup
              { [collectionId |-> calls[c].id, articleId |-> calls[c].body.articleId,
                 url |-> calls[c].body.url] }
  /\ Respond(c, 200, {})
  /\ UNCHANGED collections
  /\ UNCHANGED feedVars

\* prisma.collectionItem.deleteMany({ where: { collectionId, articleId } })
DeleteManyDone(c) ==
  /\ calls[c].pc = "write" /\ calls[c].op = "DELETE"
  /\ collectionItems' =
       { row \in collectionItems :
           ~(row.collectionId = calls[c].id /\ row.articleId = calls[c].body.articleId) }
  /\ Respond(c, 200, {})
  /\ UNCHANGED collections
  /\ UNCHANGED feedVars

CollectionsNext ==
  \/ \E c \in Calls, user \in {"ann", NoUser} : CollectionsGET(c, user)
  \/ \E c \in Calls : FindManyDone(c)
  \/ \E c \in Calls : TransactionDone(c)
  \/ \E c \in Calls, user \in Users \cup {NoUser}, id \in TargetIds, body \in PostBodies :
       ItemsPOST(c, user, id, body)
  \/ \E c \in Calls, user \in Users \cup {NoUser}, id \in TargetIds, body \in DeleteBodies :
       ItemsDELETE(c, user, id, body)
  \/ \E c \in Calls : FindFirstDone(c)
  \/ \E c \in Calls : UpsertDone(c)
  \/ \E c \in Calls : DeleteManyDone(c)

CollectionsSpec == Init /\ [][CollectionsNext]_vars

(***************************************************************************)
(* Vocabulary of the properties.                                           *)
(***************************************************************************)
\* request r arrives in this step
Arrives(r) == pc[r] = "idle" /\ pc'[r] # "idle"

\* request r leaves this step with a pipeline run under way: every source
\* fetch launched, nothing answered yet
RunLaunched(r) ==
  /\ pc'[r] = "fetching"
  /\ \A s \in Sources : results'[r][s].st = "pending"
  /\ response'[r] = <<>>

\* the pipeline run of request r completes in this step
Completes(r) == pc[r] \in {"fetching", "trending"} /\ pc'[r] = "done"

\* request r has run the pipeline to its end
Ran(r) == \E i \in 1..Len(order) : order[i] = r

\* what the fetches of r's run brought, merged
RunOutput(r) ==
  MergeItems([s \in Sources |-> results[r][s].value], githubTrending[r].value)

\* the entry request r's run produced: its items and its instant of completion
RunEntry(r) == [items |-> RunOutput(r), fetchedAt |-> response[r][1].fetchedAt]

\* the runs of r1 and r2 were in flight at the same time
Overlap(r1, r2) == r1 \in inFlightAtStart[r2] \/ r2 \in inFlightAtStart[r1]

\* in the step that completes r's run: what the source fetches had brought
\* and the trending scrape brings, merged
CompletedOutput(r) ==
  MergeItems([s \in Sources |-> results[r][s].value], githubTrending'[r].value)

\* the step in which r's run completes replaces the slot by the run's result,
\* stamped with the instant of completion, and answers with it, not cached
FreshAnswer(r) ==
  /\ techflowCache' = <<[items |-> CompletedOutput(r), fetchedAt |-> clock']>>
  /\ response'[r] # <<>>
  /\ response'[r][1].cached = FALSE
  /\ response'[r][1].items = CompletedOutput(r)
  /\ response'[r][1].fetchedAt = clock'

(***************************************************************************)
(* Properties.                                                             *)
(***************************************************************************)
\* C1 (cache hit): a non-forced request that finds the slot populated with an
\* entry younger than the TTL is answered at once with cached = TRUE, the
\* stored items and the stored fetchedAt; the slot stays as it is and no
\* fetch of any request is started or settled by that step.
C1_CacheHit ==
  [][\A r \in Reqs :
       ( /\ Arrives(r)
         /\ ~force'[r]
         /\ techflowCache # <<>>
         /\ clock - techflowCache[1].fetchedAt < CACHE_TTL_MS )
       => /\ pc'[r] = "done"
          /\ response'[r] # <<>>
          /\ response'[r][1].cached = TRUE
          /\ response'[r][1].items = techflowCache[1].items
          /\ response'[r][1].fetchedAt = techflowCache[1].fetchedAt
          /\ techflowCache' = techflowCache
          /\ results' = results
          /\ githubTrending' = githubTrending
    ]_vars

\* C1 witness: a request was served, at age TTL - 1, the non-empty list that the
\* run of another request had stored.
C1_Witness ==
  \E r1, r2 \in Reqs :
    /\ r1 # r2
    /\ Ran(r1) /\ pc[r2] = "done" /\ ~Ran(r2)
    /\ response[r2][1].cached = TRUE
    /\ response[r2][1].items = response[r1][1].items
    /\ response[r2][1].items # <<>>
    /\ response[r2][1].fetchedAt = response[r1][1].fetchedAt
    /\ now[r2] - cache[r2][1].fetchedAt = CACHE_TTL_MS - 1

\* C2 (forced refresh): a request with force = TRUE starts a pipeline run
\* whatever the slot holds, and the completion of its run replaces the slot by
\* that run's result and answers with cached = FALSE.
C2_ForcedRefresh ==
  [][\A r \in Reqs :
       /\ (Arrives(r) /\ force'[r]) => RunLaunched(r)
       /\ (force[r] /\ pc[r] # "done" /\ pc'[r] = "done")
            => (Completes(r) /\ FreshAnswer(r))
    ]_vars

\* C2 witness: a forced request that found an entry of age 0 has completed its
\* run and was answered with cached = FALSE.
C2_Witness ==
  \E r \in Reqs :
    /\ force[r] /\ Ran(r)
    /\ cache[r] # <<>> /\ now[r] - cache[r][1].fetchedAt = 0
    /\ response[r][1].cached = FALSE
    /\ techflowCache = <<RunEntry(r)>>

\* C3 (TTL expiry): a non-forced request that finds an entry of age >= TTL
\* starts a pipeline run, and the completion of that run replaces the slot and
\* answers with cached = FALSE and the list just computed.
C3_TtlExpiry ==
  [][\A r \in Reqs :
       /\ ( /\ Arrives(r)
            /\ ~force'[r]
            /\ techflowCache # <<>>
            /\ clock - techflowCache[1].fetchedAt >= CACHE_TTL_MS )
          => RunLaunched(r)
       /\ ( /\ ~force[r]
            /\ cache[r] # <<>>
            /\ pc[r] # "idle" /\ pc[r] # "done" /\ pc'[r] = "done" )
          => (Completes(r) /\ FreshAnswer(r))
    ]_vars

\* C3 witness: a non-forced request that found an entry of age exactly TTL has
\* completed its run and was answered with cached = FALSE.
C3_Witness ==
  \E r \in Reqs :
    /\ ~force[r] /\ Ran(r)
    /\ cache[r] # <<>> /\ now[r] - cache[r][1].fetchedAt = CACHE_TTL_MS
    /\ response[r][1].cached = FALSE
    /\ techflowCache = <<RunEntry(r)>>

\* C4 (empty cache): a request, forced or not, that finds the slot undefined
\* starts a pipeline run, and the completion of that run populates the slot
\* with the run's items and the instant of completion and answers with
\* cached = FALSE.
C4_EmptyCache ==
  [][\A r \in Reqs :
       /\ (Arrives(r) /\ techflowCache = <<>>) => RunLaunched(r)
       /\ ( /\ cache[r] = <<>>
            /\ pc[r] # "idle" /\ pc[r] # "done" /\ pc'[r] = "done" )
          => (Completes(r) /\ FreshAnswer(r))
    ]_vars

\* C4 witness: a non-forced request that found the slot undefined has completed
\* its run after the clock had advanced, and the slot carries the later instant.
C4_Witness ==
  \E r \in Reqs :
    /\ ~force[r] /\ Ran(r) /\ cache[r] = <<>>
    /\ response[r][1].cached = FALSE
    /\ techflowCache = <<RunEntry(r)>>
    /\ techflowCache[1].fetchedAt > now[r]

\* C5 (whole-slot replace): the slot is undefined or holds exactly the items
\* and the instant of completion of one completed run.
C5_AtomicReplace ==
  \/ techflowCache = <<>>
  \/ \E r \in Reqs : Ran(r) /\ techflowCache = <<RunEntry(r)>>

\* C5 witness: two runs that were in flight together have both completed, with
\* different items and at different instants, the second write replacing a
\* populated slot.
C5_Witness ==
  \E r1, r2 \in Reqs :
    /\ Ran(r1) /\ Ran(r2) /\ Overlap(r1, r2)
    /\ RunOutput(r1) # <<>> /\ RunOutput(r2) # <<>>
    /\ RunOutput(r1) # RunOutput(r2)
    /\ response[r1][1].fetchedAt # response[r2][1].fetchedAt
    /\ techflowCache # <<>>

\* C6 (last writer wins): a refreshing request that arrives while a run is in
\* flight starts a run of its own, and when the later of two overlapping runs
\* completes the slot holds that run's items and instant.
C6_LastWriterWins ==
  [][\A r \in Reqs :
       /\ (Arrives(r) /\ Running # {} /\ pc'[r] # "done")
            => (RunLaunched(r) /\ Running' = Running \cup {r})
       /\ (Completes(r) /\ \E r2 \in Reqs \ {r} : Ran(r2) /\ Overlap(r, r2))
            => techflowCache' = <<[items |-> CompletedOutput(r), fetchedAt |-> clock']>>
    ]_vars

\* C6 witness: of two overlapping runs the one that started first completed
\* last, and the slot holds its result, which differs from the other's.
C6_Witness ==
  \E r1, r2 \in Reqs :
    /\ r1 \in inFlightAtStart[r2]
    /\ Len(order) >= 2
    /\ order[Len(order)] = r1 /\ order[Len(order) - 1] = r2
    /\ techflowCache = <<RunEntry(r1)>>
    /\ RunEntry(r1) # RunEntry(r2)

\* what source s adds to r's run when a failed source counts as an empty list
Contribution(r, s) == IF results[r][s].st = "ok" THEN results[r][s].value ELSE <<>>

TrendingContribution(r) ==
  IF githubTrending[r].st = "ok" THEN githubTrending[r].value ELSE <<>>

\* C7 (failure isolation): no failure of a source or of the trending page ends
\* a run, and the answer of a completed run is the merge of what the sources
\* that succeeded brought.
C7_FailureIsolation ==
  \A r \in Reqs :
    /\ pc[r] # "error"
    /\ \A s \in Sources : results[r][s].st # "rejected"
    /\ (\E s \in Sources : results[r][s].st = "failed")
          => pc[r] \in {"fetching", "trending", "done"}
    /\ Ran(r) =>
         response[r][1].items =
           MergeItems([s \in Sources |-> Contribution(r, s)], TrendingContribution(r))

\* C7 witness: a run in which the first source and the trending page failed
\* has completed with the items of the other source.
C7_Witness ==
  \E r \in Reqs :
    /\ Ran(r)
    /\ results[r][1].st = "failed"
    /\ githubTrending[r].st = "failed"
    /\ \E s \in Sources : results[r][s].st = "ok"
    /\ response[r][1].items # <<>>

\* C8 (no fatal error): no request ends in an error; a request that is done
\* has a response with an items list, and the last completed run's list, empty
\* or not, is what the slot holds.
C8_NoFatalError ==
  /\ \A r \in Reqs :
       /\ pc[r] # "error"
       /\ pc[r] = "done" => response[r] # <<>>
  /\ order # <<>> =>
       LET r == order[Len(order)]
       IN  techflowCache = <<[items |-> response[r][1].items,
                              fetchedAt |-> response[r][1].fetchedAt]>>

\* C8 witness: a run in which every source and the trending page failed was
\* answered with the empty list, which is in the slot, and a later request
\* was served it from the cache.
C8_Witness ==
  \E r1, r2 \in Reqs :
    /\ Ran(r1)
    /\ \A s \in Sources : results[r1][s].st = "failed"
    /\ githubTrending[r1].st = "failed"
    /\ response[r1][1].items = <<>>
    /\ techflowCache # <<>> /\ techflowCache[1].items = <<>>
    /\ pc[r2] = "done" /\ response[r2][1].cached = TRUE
    /\ response[r2][1].items = <<>>

\* C9 (fan-out): whenever a source fetch of a run is outstanding, the trending
\* scrape of that run has been launched too.
C9_TrendingLaunchedWithSources ==
  \A r \in Reqs :
    (\E s \in Sources : results[r][s].st = "pending") => githubTrending[r].st # "idle"

\* C10 (termination): every pipeline run that is started completes, whatever
\* the endpoints do.
C10_RunCompletes ==
  \A r \in Reqs : (pc[r] \in {"fetching", "trending"}) ~> (pc[r] = "done")

(***************************************************************************)
(* Properties of the items.                                                *)
(***************************************************************************)
\* request r has been answered
Answered(r) == response[r] # <<>>

\* the items request r was answered with
Output(r) == response[r][1].items

\* x is a number of [0, 1]
InUnitInterval(x) ==
  /\ ~x.nan
  /\ x.hi >= 0 /\ x.lo >= 0
  /\ (x.hi < OneScore \/ (x.hi = OneScore /\ x.lo = 0))

\* C11 (score range): every item of every answer has a score in [0, 1],
\* whatever the dates of the upstream records hold.
C11_ScoreRange ==
  \A r \in Reqs : Answered(r) =>
    \A i \in 1..Len(Output(r)) : InUnitInterval(Output(r)[i].score)

\* C12 (well-formed items): every item of every answer, from a feed or from
\* the trending page, has a non-empty url, a category of the enumeration and
\* at least one tag.
C12_WellFormed ==
  \A r \in Reqs : Answered(r) =>
    \A i \in 1..Len(Output(r)) :
      /\ Output(r)[i].url # <<>>
      /\ Output(r)[i].category \in FeedCategory
      /\ Output(r)[i].tags # <<>>

\* C12 witness: a run was answered with an item of a feed and an item of the
\* trending page, one tagged by the fallback and one by a keyword, after a
\* record of the feed had resolved to no url and was dropped.
C12_Witness ==
  \E r \in Reqs :
    /\ Ran(r)
    /\ \E i \in 1..Len(Output(r)) : Output(r)[i].source = "GitHub Trending"
    /\ \E i \in 1..Len(Output(r)) : Output(r)[i].source = sources[1].name
    /\ \E i \in 1..Len(Output(r)) : Output(r)[i].tags = <<"General">>
    /\ \E i \in 1..Len(Output(r)) : Output(r)[i].tags = <<"Backend">>
    /\ \E s \in Sources : \E i \in 1..Len(results[r][s].value) :
         results[r][s].value[i].url = <<>>

\* what the fetches of r's run brought, in the order of the concatenation:
\* the sources in registry order, each feed in its order, the trending items
Concatenation(r) ==
  Flat([s \in Sources |-> results[r][s].value]) \o githubTrending[r].value

\* the first item of flat that has the url
FirstWith(flat, url) ==
  flat[CHOOSE i \in 1..Len(flat) :
         flat[i].url = url /\ \A j \in 1..(i - 1) : flat[j].url # url]

\* C13 (first occurrence wins): of the items of a run that have one url,
\* exactly one is in the answer, and it is the first of them in the order of
\* the concatenation, in whatever order the fetches completed.
C13_FirstOccurrenceWins ==
  \A r \in Reqs : Ran(r) =>
    LET flat == Concatenation(r)
    IN  \A i \in 1..Len(flat) : flat[i].url # <<>> =>
          /\ Cardinality({k \in 1..Len(Output(r)) : Output(r)[k].url = flat[i].url}) = 1
          /\ \E k \in 1..Len(Output(r)) : Output(r)[k] = FirstWith(flat, flat[i].url)

\* C13 witness: the second source answered before the first (its record
\* without a date got the earlier instant), both with the same two articles,
\* and the answer carries the articles as the first source gave them.
C13_Witness ==
  \E r \in Reqs :
    /\ Ran(r)
    /\ parsedFeed[r][1] = <<RecA, RecSummit>>
    /\ parsedFeed[r][2] = <<RecSummit, RecA>>
    /\ results[r][2].value[1].publishedAt < results[r][1].value[2].publishedAt
    /\ \E k \in 1..Len(Output(r)) : Output(r)[k] = results[r][1].value[1]
    /\ \E k \in 1..Len(Output(r)) : Output(r)[k] = results[r][1].value[2]
    /\ \A k \in 1..Len(Output(r)) : Output(r)[k].source # sources[2].name

\* a >= b for what getTime() gives of two dates: false when either is NaN
NotOlder(a, b) ==
  a.publishedAt # Garbled /\ b.publishedAt # Garbled /\ a.publishedAt >= b.publishedAt

\* C14 (sort order): of every two neighbours of an answer the first one's
\* published timestamp is not older than the second one's.
C14_SortedDescending ==
  \A r \in Reqs : Answered(r) =>
    \A i \in 1..(Len(Output(r)) - 1) : NotOlder(Output(r)[i], Output(r)[i + 1])

\* C15 (identifiers): no two items of an answer have the same id.
C15_UniqueIds ==
  \A r \in Reqs : Answered(r) =>
    \A i, j \in 1..Len(Output(r)) : i # j => Output(r)[i].id # Output(r)[j].id

\* the signal groups in their order of priority, each with its category
SignalGroups ==
  << [signals |-> conferenceSignals, category |-> "Tech Conferences"],
     [signals |-> researchSignals,   category |-> "Research Papers"],
     [signals |-> jobSignals,        category |-> "Tech Jobs"],
     [signals |-> productSignals,    category |-> "Product Launches"] >>

\* a keyword of group g occurs in the lower-cased text
GroupMatches(g, text) ==
  \E i \in 1..Len(SignalGroups[g].signals) :
    includes(toLowerCase(text), SignalGroups[g].signals[i])

\* the category of the first group that matches, the default when none does
CategoryByPriority(text, default) ==
  IF \E g \in 1..Len(SignalGroups) : GroupMatches(g, text)
  THEN SignalGroups[CHOOSE g \in 1..Len(SignalGroups) :
                      GroupMatches(g, text) /\ \A h \in 1..(g - 1) : ~GroupMatches(h, text)
                   ].category
  ELSE default

\* the default category of the source an item names
DefaultCategory(item) ==
  IF item.source = "GitHub Trending" THEN "Open Source"
  ELSE sources[CHOOSE s \in 1..Len(sources) : sources[s].name = item.source].category

ScoreOf(hi) == [nan |-> FALSE, hi |-> hi, lo |-> 0]

\* C17 (score formula): a call of scoreItem with a date that parses returns
\* min(1, max(0.1, 1.2 - h / 48) * weight), h being the hours since the date
\* and at least 1: up to one hour after the date (and before it) the recency
\* is 1.2 - 1/48, it then falls by 1/48 an hour, and from 52.8 hours on it is
\* 0.1.  Weight 1.0 gives 1 for a date equal to now and 0.1 for a date 100
\* hours back.
C17_ScoreFormula ==
  scoreCall # <<>> =>
    LET call    == scoreCall[1]
        elapsed == call.now - call.publishedAt
    IN  call.publishedAt # Garbled =>
          /\ elapsed <= Hour =>
               call.score = MinOne(Times((RecencyUnit \div 10) * 12 - Hour, call.weight))
          /\ (elapsed > Hour /\ elapsed < (RecencyUnit \div 10) * 11) =>
               call.score = MinOne(Times((RecencyUnit \div 10) * 12 - elapsed, call.weight))
          /\ elapsed >= (RecencyUnit \div 10) * 11 =>
               call.score = Times(RecencyUnit \div 10, call.weight)
          /\ (call.weight = 100 /\ elapsed = 0) => call.score = ScoreOf(OneScore)
          /\ (call.weight = 100 /\ elapsed = 100 * Hour) => call.score = ScoreOf(OneScore \div 10)
          /\ (call.weight = 90 /\ elapsed = 24 * Hour) => call.score = ScoreOf(63 * 48)
          /\ (call.weight = 80 /\ elapsed = 0) => call.score = ScoreOf(4528)
          /\ InUnitInterval(call.score)

\* C17 witness: weight 1.0 and a date 100 hours back scored 0.1.
C17_Witness ==
  /\ scoreCall # <<>>
  /\ scoreCall[1].weight = 100
  /\ scoreCall[1].now - scoreCall[1].publishedAt = 100 * Hour
  /\ scoreCall[1].score = ScoreOf(480)

\* C18 (title default): the title of every item of an answer is non-empty;
\* an item made of a record without title, or with an empty one, is titled
\* "Untitled", any other has the record's title.
C18_TitleNonEmpty ==
  \A r \in Reqs :
    /\ Answered(r) => \A i \in 1..Len(Output(r)) : Output(r)[i].title # <<>>
    /\ \A s \in Sources : results[r][s].st = "ok" =>
         \A i \in 1..Len(parsedFeed[r][s]) :
           results[r][s].value[i].title =
             IF parsedFeed[r][s][i].title = Absent \/ Trim(parsedFeed[r][s][i].title) = <<>>
             THEN Untitled
             ELSE Trim(parsedFeed[r][s][i].title)

\* the first non-empty of the link and the guid of a record, else empty
LinkOrGuid(item) == OrElse(item.link, OrElse(item.guid, <<>>))

\* C19 (url resolution): the url of the item made of a record is the first
\* non-empty of the record's link and guid, and every record for which that
\* is not empty has its url in the answer.
C19_UrlResolution ==
  \A r \in Reqs : \A s \in Sources : results[r][s].st = "ok" =>
    \A i \in 1..Len(parsedFeed[r][s]) :
      /\ results[r][s].value[i].url = LinkOrGuid(parsedFeed[r][s][i])
      /\ (Ran(r) /\ LinkOrGuid(parsedFeed[r][s][i]) # <<>>) =>
           \E k \in 1..Len(Output(r)) : Output(r)[k].url = LinkOrGuid(parsedFeed[r][s][i])

\* C20 (timestamp fallback): the published timestamp of every item of an
\* answer parses; it is the record's isoDate when there is one, else its
\* pubDate when that parses, else an instant of the run.
C20_TimestampParses ==
  \A r \in Reqs :
    /\ Answered(r) => \A i \in 1..Len(Output(r)) : Output(r)[i].publishedAt # Garbled
    /\ \A s \in Sources : results[r][s].st = "ok" =>
         \A i \in 1..Len(parsedFeed[r][s]) :
           LET item == parsedFeed[r][s][i]
               publishedAt == results[r][s].value[i].publishedAt
           IN  IF item.isoDate # NoDate THEN publishedAt = item.isoDate
               ELSE IF item.pubDate # NoDate /\ item.pubDate # Garbled
                    THEN publishedAt = item.pubDate
                    ELSE publishedAt >= now[r] /\ publishedAt <= clock

(***************************************************************************)
(* Properties of the normalizer and of the scraper.                        *)
(***************************************************************************)
\* the records request r got of source s, each with the item made of it
Normalized(r) ==
  UNION { { [record |-> parsedFeed[r][s][i], item |-> results[r][s].value[i], source |-> s] :
              i \in 1..Len(parsedFeed[r][s]) } :
          s \in {t \in Sources : results[r][t].st = "ok"} }

\* the plain text the summary of a record is made of
PlainText(record) == ItemContent(record, ItemTitle(record))

\* C21 as stated (summary truncation): the summary of an item is the plain
\* text of its record when that has at most 220 characters, and else exactly
\* its first 220 characters followed by "...".
C21_SummaryFirst220 ==
  \A r \in Reqs : \A n \in Normalized(r) :
    LET text == PlainText(n.record)
    IN  /\ Len(text) <= 220 => n.item.summary = text
        /\ Len(text) > 220 => n.item.summary = SubSeq(text, 1, 220) \o <<".", ".", ".">>

\* C21 (summary truncation, amended): the summary of an item is the plain
\* text of its record when that has at most 220 characters; else it is a
\* beginning of the text of at most 220 characters that does not end in white
\* space, followed by "...", and what the beginning leaves out of the first
\* 220 characters is white space only.  No summary has more than 223
\* characters.
C21_SummaryTrimmed ==
  \A r \in Reqs : \A n \in Normalized(r) :
    LET text    == PlainText(n.record)
        summary == n.item.summary
        kept    == Len(summary) - 3
    IN  /\ Len(text) <= 220 => summary = text
        /\ Len(text) > 220 =>
             /\ kept \in 0..220
             /\ SubSeq(summary, 1, kept) = SubSeq(text, 1, kept)
             /\ SubSeq(summary, kept + 1, kept + 3) = <<".", ".", ".">>
             /\ kept > 0 => ~IsSpace(text[kept])
             /\ \A k \in (kept + 1)..220 : IsSpace(text[k])
        /\ Len(summary) <= 223

\* C21 witness: a text of more than 220 characters whose character 220 is a
\* space was cut to 219 characters and the dots, another to 220 and the dots,
\* and a short one was kept.
C21_Witness ==
  /\ \E n \in Normalized(1) :
       Len(PlainText(n.record)) > 220 /\ Len(n.item.summary) = 222
  /\ \E n \in Normalized(1) :
       Len(PlainText(n.record)) > 220 /\ Len(n.item.summary) = 223
  /\ \E n \in Normalized(1) :
       Len(PlainText(n.record)) \in 1..220 /\ n.item.summary = PlainText(n.record)

\* the hostname starts with "www."
LeadingWww(host) == Len(host) >= 4 /\ SubSeq(host, 1, 4) = <<"w", "w", "w", ".">>

\* C22 (domain extraction): the source domain of an item with a url is the
\* hostname of the url, without its first four characters when these are
\* "www." and whole otherwise, and it is "source" when the url does not parse.
C22_DomainOfUrl ==
  \A r \in Reqs : \A n \in Normalized(r) :
    LET host == hostname(n.item.url)
    IN  n.item.url # <<>> =>
          n.item.sourceDomain =
            IF host = <<>> THEN <<"s", "o", "u", "r", "c", "e">>
            ELSE IF LeadingWww(host) THEN SubSeq(host, 5, Len(host))
            ELSE host

\* C23 (no retry): no endpoint is requested twice by one run; a run that has
\* come to its end has requested every source endpoint and the trending page
\* once, whatever failed or timed out, a run under way every source endpoint
\* once, and a request served from the cache has requested nothing.
C23_NoRetry ==
  \A r \in Reqs :
    /\ \A e \in 0..NumSources : requested[r][e] <= 1
    /\ Ran(r) => \A e \in 0..NumSources : requested[r][e] = 1
    /\ r \in Running => \A s \in Sources : requested[r][s] = 1
    /\ (pc[r] = "done" /\ ~Ran(r)) => \A e \in 0..NumSources : requested[r][e] = 0

\* C23 witness: a run in which a source failed and the trending page failed
\* has ended, and a later run has requested the failed source again.
C23_Witness ==
  /\ Ran(1) /\ results[1][1].st = "failed" /\ githubTrending[1].st = "failed"
  /\ requested[1][1] = 1 /\ requested[1][0] = 1
  /\ Ran(2) /\ requested[2][1] = 1

\* the trending items of request r's run
Scraped(r) == githubTrending[r].value

\* C24 (trending scraper bound): a scrape emits one item for each of the
\* first N = 11 entries of the page, in their order, and none for a later
\* entry; each item has the instant of the scrape as published timestamp and
\* the score of weight 0.9 at that instant, min(1, (1.2 - 1/48) * 0.9) = 1.
C24_TrendingBound ==
  \A r \in Reqs : githubTrending[r].st = "ok" =>
    LET page == trendingHtml[r]
    IN  /\ Len(Scraped(r)) = IF Len(page) > 11 THEN 11 ELSE Len(page)
        /\ \A i \in 1..Len(Scraped(r)) :
             /\ Scraped(r)[i].url = GitHubPrefix \o RemoveSpaces(page[i].name)
             /\ Scraped(r)[i].source = "GitHub Trending"
             /\ Scraped(r)[i].publishedAt >= now[r]
             /\ Scraped(r)[i].publishedAt = response[r][1].fetchedAt
             /\ Scraped(r)[i].score = ScoreOf(100 * 48)
        /\ \A i \in 12..Len(page) : \A k \in 1..Len(Output(r)) :
             Output(r)[k].url # GitHubPrefix \o RemoveSpaces(page[i].name)

\* C24 witness: a page of 13 entries was scraped, 11 items came of it, the
\* eleventh entry is in the answer.
C24_Witness ==
  /\ githubTrending[1].st = "ok"
  /\ Len(trendingHtml[1]) = 13
  /\ Len(Scraped(1)) = 11
  /\ \E k \in 1..Len(Output(1)) :
       Output(1)[k].url = GitHubPrefix \o RemoveSpaces(trendingHtml[1][11].name)

(***************************************************************************)
(* Properties of the cache over several runs.                              *)
(***************************************************************************)
\* C25 (frame during a run): the slot changes only in the step that ends a
\* run, so it keeps its value while runs are in flight; a request without
\* refresh that arrives while a run is in flight and finds the entry of the
\* slot younger than the TTL is answered with that entry, cached = TRUE, and
\* leaves the slot and every run as they are.
C25_FrameDuringRun ==
  [][ /\ techflowCache' # techflowCache => \E r \in Reqs : Completes(r)
      /\ \A r \in Reqs :
           ( /\ Arrives(r)
             /\ ~force'[r]
             /\ Running # {}
             /\ techflowCache # <<>>
             /\ clock - techflowCache[1].fetchedAt < CACHE_TTL_MS )
           => /\ pc'[r] = "done"
              /\ response'[r] # <<>>
              /\ response'[r][1].cached = TRUE
              /\ response'[r][1].items = techflowCache[1].items
              /\ response'[r][1].fetchedAt = techflowCache[1].fetchedAt
              /\ techflowCache' = techflowCache
              /\ results' = results /\ githubTrending' = githubTrending
              /\ \A q \in Reqs \ {r} : pc'[q] = pc[q] ]_vars

\* C25 witness: a forced refresh is in flight, one of its sources has
\* answered, the slot is as the refresh found it, and the request that
\* arrived after it was answered from the slot.
C25_Witness ==
  /\ force[1] /\ pc[1] = "fetching" /\ results[1][1].st = "ok"
  /\ cache[1] # <<>> /\ techflowCache = cache[1]
  /\ pc[2] = "done" /\ ~force[2]
  /\ response[2][1].cached = TRUE
  /\ response[2][1].items = techflowCache[1].items

\* a source of request r's run failed
SomeSourceFailed(r) == \E s \in Sources : results[r][s].st = "failed"

\* C26 (partial results are cached for the full TTL): the step that ends a
\* run in which sources failed stores what the run got, stamped with the
\* instant of completion; a request that arrives while the slot holds the
\* entry of such a run is answered with that entry, cached = TRUE, and calls
\* no endpoint when it asks for no refresh and the entry is younger than the
\* TTL, and else starts the run that calls every source endpoint again.
C26_PartialCached ==
  [][\A r1 \in Reqs :
       /\ (Completes(r1) /\ SomeSourceFailed(r1)) => FreshAnswer(r1)
       /\ \A r2 \in Reqs :
            ( /\ Ran(r1) /\ SomeSourceFailed(r1)
              /\ techflowCache = <<[items |-> response[r1][1].items,
                                    fetchedAt |-> response[r1][1].fetchedAt]>>
              /\ Arrives(r2) )
            => IF ~force'[r2] /\ clock - response[r1][1].fetchedAt < CACHE_TTL_MS
               THEN /\ pc'[r2] = "done"
                    /\ response'[r2] # <<>>
                    /\ response'[r2][1].cached = TRUE
                    /\ response'[r2][1].items = response[r1][1].items
                    /\ response'[r2][1].fetchedAt = response[r1][1].fetchedAt
                    /\ \A e \in 0..NumSources : requested'[r2][e] = 0
                    /\ techflowCache' = techflowCache
               ELSE /\ pc'[r2] = "fetching"
                    /\ \A s \in Sources : requested'[r2][s] = 1 ]_vars

\* C26 witness: every source and the trending page failed in the run of the
\* first request, time passed, and the second request was answered with the
\* empty list, cached = TRUE.
C26_Witness ==
  /\ Ran(1) /\ \A s \in Sources : results[1][s].st = "failed"
  /\ githubTrending[1].st = "failed"
  /\ response[1][1].items = <<>>
  /\ pc[2] = "done" /\ ~Ran(2)
  /\ response[2][1].cached = TRUE /\ response[2][1].items = <<>>
  /\ now[2] > response[1][1].fetchedAt

\* what the run of request r was answered with, as an entry of the slot
AnsweredEntry(r) ==
  [items |-> response[r][1].items, fetchedAt |-> response[r][1].fetchedAt]

\* the run that started last among the completed ones: requests are numbered
\* in their order of arrival, and a run starts when its request arrives
LatestStarted == CHOOSE r \in Reqs : Ran(r) /\ \A q \in Reqs : Ran(q) => q <= r

\* C27 as stated (freshest run wins): once a run has completed, the slot
\* holds the result of the run that started last among the completed ones.
C27_LatestStartedWins ==
  order # <<>> => techflowCache = <<AnsweredEntry(LatestStarted)>>

\* C27 (amended: the run that completes last wins): the slot is undefined
\* until a run has completed, and from then on holds the result of the run
\* that completed last, whichever of the runs started first.
C27_LatestCompletedWins ==
  IF order = <<>> THEN techflowCache = <<>>
  ELSE techflowCache = <<AnsweredEntry(order[Len(order)])>>

\* C27 witness: the second request started its run while the run of the
\* first was in flight and completed first; the slot holds the result of the
\* first request's run, which is not the result of the second's.
C27_Witness ==
  /\ order = <<2, 1>>
  /\ 1 \in inFlightAtStart[2]
  /\ now[1] < now[2]
  /\ response[2][1].fetchedAt < response[1][1].fetchedAt
  /\ response[2][1].items # response[1][1].items
  /\ techflowCache = <<AnsweredEntry(1)>>

\* C28 (cache monotonicity): a populated slot stays populated, and the
\* fetchedAt of the slot never decreases from one write to the next.
C28_CacheMonotonic ==
  [][techflowCache # <<>> =>
       /\ techflowCache' # <<>>
       /\ techflowCache'[1].fetchedAt >= techflowCache[1].fetchedAt]_vars

\* C28 witness: the slot was written twice, by overlapping runs, the second
\* write at a later instant than the first and with an empty list.
C28_Witness ==
  /\ Len(order) = 2
  /\ Overlap(1, 2)
  /\ response[order[1]][1].fetchedAt < response[order[2]][1].fetchedAt
  /\ response[order[1]][1].items # <<>>
  /\ techflowCache = <<[items |-> <<>>, fetchedAt |-> response[order[2]][1].fetchedAt]>>

(***************************************************************************)
(* Properties of the collection routes.                                    *)
(***************************************************************************)
\* the collections of a name that a user owns
Named(user, name) == {col \in collections : col.userId = user /\ col.name = name}

\* C29 (default collections are created once): no user owns two collections
\* of one default name; a user whose GET has been answered owns one of each
\* and was answered with them; a GET without signed-in user is answered
\* with the empty list and no collection belongs to it.
C29_DefaultsOnce ==
  /\ \A user \in Users : \A i \in 1..Len(defaults) :
       Cardinality(Named(user, defaults[i])) <= 1
  /\ \A c \in Calls : (calls[c].op = "GET" /\ calls[c].pc = "done") =>
       IF calls[c].user = NoUser
       THEN calls[c].status = 200 /\ calls[c].result = {}
       ELSE /\ calls[c].status = 200
            /\ \A i \in 1..Len(defaults) :
                 /\ Cardinality(Named(calls[c].user, defaults[i])) = 1
                 /\ Named(calls[c].user, defaults[i]) \subseteq calls[c].result
  /\ \A col \in collections : col.userId \in Users

\* the user of request k owns the collection the request names
Owns(k) == \E col \in collections : col.id = k.id /\ col.userId = k.user

\* the body of request k carries what its route requires
Complete(k) == k.body.articleId # "" /\ (k.op = "POST" => k.body.url # "")

\* C30 (collection item ownership): a POST or DELETE on the items of a
\* collection is answered 401 without session, else 404 when the user does
\* not own a collection of that id, else 400 when the body lacks articleId
\* (or url, for POST), else 200; an answer other than 200 leaves every stored
\* item as it is, and the stored items change only in the step that answers
\* 200 to a signed-in owner with a complete body, and only in the item of
\* that collection and article.
C30_ItemOwnership ==
  [][ /\ \A c \in Calls :
           ( /\ calls[c].pc # "done" /\ calls'[c].pc = "done"
             /\ calls'[c].op \in {"POST", "DELETE"} )
           => /\ calls'[c].status =
                   IF calls'[c].user = NoUser THEN 401
                   ELSE IF ~Owns(calls'[c]) THEN 404
                   ELSE IF ~Complete(calls'[c]) THEN 400
                   ELSE 200
              /\ calls'[c].status # 200 => collectionItems' = collectionItems
      /\ collectionItems' # collectionItems =>
           \E c \in Calls :
             /\ calls[c].pc = "write" /\ calls'[c].pc = "done"
             /\ calls'[c].status = 200
             /\ calls[c].user \in Users /\ Owns(calls[c]) /\ Complete(calls[c])
             /\ \A row \in (collectionItems' \ collectionItems)
                          \cup (collectionItems \ collectionItems') :
                  row.collectionId = calls[c].id /\ row.articleId = calls[c].body.articleId
    ]_vars

\* C30 witness: the owner of collection 1 has stored an item in it, and the
\* request of another user on the same collection and article was answered
\* 404 and has left the item where it is.
C30_Witness ==
  /\ calls[1].op = "GET" /\ calls[1].user = "ann" /\ calls[1].pc = "done"
  /\ calls[2].op = "POST" /\ calls[2].user = "ann" /\ calls[2].status = 200
  /\ calls[3].op = "DELETE" /\ calls[3].user = "bob" /\ calls[3].id = 1
  /\ calls[3].body.articleId = "a1" /\ calls[3].status = 404
  /\ collectionItems = {[collectionId |-> 1, articleId |-> "a1", url |-> "https://a.io/1"]}

====
